---- MODULE Spec2Model ----
(***************************************************************************)
(* A model of the Azure Data Lake Storage Gen2 backend of OpenDAL          *)
(* (core/src/services/azdls/backend.rs): the builder with its setters and  *)
(* build(), the account-name inference, and the operations of the          *)
(* Access implementation (create_dir, stat, read, write, delete, list,     *)
(* rename) as step machines over sign / send / classify.                   *)
(*                                                                         *)
(* Strings whose characters the code inspects (endpoint, account name,     *)
(* root) are sequences of one-character strings; strings the code only     *)
(* tests for emptiness or equality are TLA+ strings.                       *)
(***************************************************************************)
EXTENDS Integers, Sequences, FiniteSets, TLC

VARIABLES
    bpc,        \* builder position: "new", "config", "built", "inferred"
    config,     \* AzdlsBuilder.config : AzdlsConfig
    http_client,\* AzdlsBuilder.http_client is Some(_)
    built,      \* the Result of build()
    infer_in,   \* argument of a direct call of infer_storage_name_from_endpoint
    infer_out,  \* its return value
    pc,         \* position of the running backend operation
    op,         \* the running operation and its arguments
    resp,       \* the response in hand (None before the transport answered)
    parent,     \* rename: how azdls_ensure_parent_path ended
    sent,       \* requests handed to the transport by the running operation
    signs,      \* calls of Core::sign by the running operation
    result,     \* what the operation returned
    del_hist    \* outcomes of the latest consecutive deletes of one path

bvars == <<bpc, config, http_client, built, infer_in, infer_out>>
ovars == <<pc, op, resp, parent, sent, signs, result, del_hist>>
vars == <<bpc, config, http_client, built, infer_in, infer_out,
          pc, op, resp, parent, sent, signs, result, del_hist>>

-----------------------------------------------------------------------------
(* Option and Result *)

None == <<>>
Some(v) == <<v>>
IsSome(o) == Len(o) = 1
IsNone(o) == Len(o) = 0
Unwrap(o) == o[1]

NoErr == [kind |-> "none", msg |-> ""]
Ok(v) == [ok |-> TRUE, val |-> v, err |-> NoErr]
Err(e) == [ok |-> FALSE, val |-> <<>>, err |-> e]

-----------------------------------------------------------------------------
(* Character strings *)

\* Bounds of the inputs.
MaxSlashes == 2

HTTP == <<"h", "t", "t", "p", ":", "/", "/">>
HTTPS == <<"h", "t", "t", "p", "s", ":", "/", "/">>
HTTPS_UPPER == <<"H", "T", "T", "P", "S", ":", "/", "/">>
SUFFIX_PUBLIC == <<"d", "f", "s", ".", "c", "o", "r", "e", ".", "w", "i", "n", "d", "o", "w", "s", ".", "n", "e", "t">>
SUFFIX_USGOV == <<"d", "f", "s", ".", "c", "o", "r", "e", ".", "u", "s", "g", "o", "v", "c", "l", "o", "u", "d", "a", "p", "i", ".", "n", "e", "t">>
SUFFIX_CHINA == <<"d", "f", "s", ".", "c", "o", "r", "e", ".", "c", "h", "i", "n", "a", "c", "l", "o", "u", "d", "a", "p", "i", ".", "c", "n">>
SUFFIX_MIXED == <<"D", "F", "S", ".", "C", "o", "r", "e", ".", "W", "i", "n", "d", "o", "w", "s", ".", "N", "E", "T">>
SUFFIX_BLOB == <<"b", "l", "o", "b", ".", "c", "o", "r", "e", ".", "w", "i", "n", "d", "o", "w", "s", ".", "n", "e", "t">>
SUFFIX_LONGER == <<"d", "f", "s", ".", "c", "o", "r", "e", ".", "w", "i", "n", "d", "o", "w", "s", ".", "n", "e", "t", ".", "c", "n">>
SUFFIX_PATH == <<"d", "f", "s", ".", "c", "o", "r", "e", ".", "w", "i", "n", "d", "o", "w", "s", ".", "n", "e", "t", "/", "f", "s">>
SUFFIX_COM == <<"c", "o", "m">>
ACCOUNT == <<"a", "c", "c", "o", "u", "n", "t">>
EXAMPLE == <<"e", "x", "a", "m", "p", "l", "e">>
ACCT_UPPER == <<"A", "c", "c", "t">>
EXPLICIT == <<"m", "y", "a", "c", "c", "t">>
AZURITE == <<"h", "t", "t", "p", ":", "/", "/", "1", "2", "7", ".", "0", ".", "0", ".", "1", ":", "1", "0", "0", "0", "0", "/", "d", "e", "v", "s", "t", "o", "r", "e", "a", "c", "c", "o", "u", "n", "t", "1">>
DEFAULT_AUTHORITY_HOST == "https://login.microsoftonline.com"

Uppers == <<"A", "B", "C", "D", "E", "F", "G", "H", "I", "J", "K", "L", "M",
            "N", "O", "P", "Q", "R", "S", "T", "U", "V", "W", "X", "Y", "Z">>
Lowers == <<"a", "b", "c", "d", "e", "f", "g", "h", "i", "j", "k", "l", "m",
            "n", "o", "p", "q", "r", "s", "t", "u", "v", "w", "x", "y", "z">>

RECURSIVE Slashes(_)
Slashes(k) == IF k = 0 THEN <<>> ELSE <<"/">> \o Slashes(k - 1)

\* str::to_lowercase, on the ASCII letters
to_lowercase_char(c) ==
    IF \E i \in 1..Len(Uppers) : Uppers[i] = c
    THEN Lowers[CHOOSE i \in 1..Len(Uppers) : Uppers[i] = c]
    ELSE c

to_lowercase(s) == [i \in 1..Len(s) |-> to_lowercase_char(s[i])]

\* str::trim_end_matches(c): s without its longest suffix made of c only
RECURSIVE trim_end_matches(_, _)
trim_end_matches(s, c) ==
    IF Len(s) > 0 /\ s[Len(s)] = c
    THEN trim_end_matches(SubSeq(s, 1, Len(s) - 1), c)
    ELSE s

starts_with(s, p) == Len(s) >= Len(p) /\ SubSeq(s, 1, Len(p)) = p

\* str::strip_prefix(p): Some(rest) when s starts with p, None otherwise
strip_prefix(s, p) ==
    IF starts_with(s, p) THEN Some(SubSeq(s, Len(p) + 1, Len(s))) ELSE None

\* str::splitn(2, c): the parts before and after the first c; one part when
\* s holds no c
splitn2(s, c) ==
    IF \E i \in 1..Len(s) : s[i] = c
    THEN LET i == CHOOSE j \in 1..Len(s) :
                      s[j] = c /\ \A k \in 1..(j - 1) : s[k] # c
         IN  <<SubSeq(s, 1, i - 1), SubSeq(s, i + 1, Len(s))>>
    ELSE <<s>>

KNOWN_AZDLS_ENDPOINT_SUFFIX == {SUFFIX_PUBLIC, SUFFIX_USGOV, SUFFIX_CHINA}

\* Variant: the suffix is compared as written, without to_lowercase
infer_case_sensitive(endpoint) ==
    LET stripped == IF IsSome(strip_prefix(endpoint, HTTP))
                    THEN Unwrap(strip_prefix(endpoint, HTTP))
                    ELSE IF IsSome(strip_prefix(endpoint, HTTPS))
                         THEN Unwrap(strip_prefix(endpoint, HTTPS))
                         ELSE endpoint
        parts == splitn2(stripped, ".")
        endpoint_suffix ==
            trim_end_matches(IF Len(parts) = 2 THEN parts[2] ELSE <<>>, "/")
    IN  IF endpoint_suffix \in KNOWN_AZDLS_ENDPOINT_SUFFIX
        THEN Some(parts[1])
        ELSE None

infer_storage_name_from_endpoint(endpoint) ==
    LET stripped == IF IsSome(strip_prefix(endpoint, HTTP))
                    THEN Unwrap(strip_prefix(endpoint, HTTP))
                    ELSE IF IsSome(strip_prefix(endpoint, HTTPS))
                         THEN Unwrap(strip_prefix(endpoint, HTTPS))
                         ELSE endpoint
        parts == splitn2(stripped, ".")
        storage_name == parts[1]
        endpoint_suffix ==
            to_lowercase(trim_end_matches(
                IF Len(parts) = 2 THEN parts[2] ELSE <<>>, "/"))
    IN  IF endpoint_suffix \in KNOWN_AZDLS_ENDPOINT_SUFFIX
        THEN Some(storage_name)
        ELSE None

-----------------------------------------------------------------------------
(* AzdlsConfig and AzdlsBuilder *)

\* #[derive(Default)] of AzdlsConfig
DefaultConfig ==
    [root |-> None, filesystem |-> "", endpoint |-> None,
     account_name |-> None, account_key |-> None, client_secret |-> None,
     tenant_id |-> None, client_id |-> None, authority_host |-> None]

root(cfg, v) ==
    IF v # <<>> THEN [cfg EXCEPT !.root = Some(v)] ELSE cfg

filesystem(cfg, v) == [cfg EXCEPT !.filesystem = v]

endpoint(cfg, v) ==
    IF v # <<>>
    THEN [cfg EXCEPT !.endpoint = Some(trim_end_matches(v, "/"))]
    ELSE cfg

account_name(cfg, v) ==
    IF v # <<>> THEN [cfg EXCEPT !.account_name = Some(v)] ELSE cfg

account_key(cfg, v) ==
    IF v # "" THEN [cfg EXCEPT !.account_key = Some(v)] ELSE cfg

client_secret(cfg, v) ==
    IF v # "" THEN [cfg EXCEPT !.client_secret = Some(v)] ELSE cfg

tenant_id(cfg, v) ==
    IF v # "" THEN [cfg EXCEPT !.tenant_id = Some(v)] ELSE cfg

client_id(cfg, v) ==
    IF v # "" THEN [cfg EXCEPT !.client_id = Some(v)] ELSE cfg

authority_host(cfg, v) ==
    IF v # "" THEN [cfg EXCEPT !.authority_host = Some(v)] ELSE cfg

\* raw::normalize_root: slashes collapsed, a leading slash, no trailing slash
\* except for the root itself
RECURSIVE collapse_slashes(_)
collapse_slashes(s) ==
    IF Len(s) < 2 THEN s
    ELSE IF s[1] = "/" /\ s[2] = "/"
         THEN collapse_slashes(Tail(s))
         ELSE <<s[1]>> \o collapse_slashes(Tail(s))

normalize_root(v) ==
    LET c == collapse_slashes(v)
        l == IF starts_with(c, <<"/">>) THEN c ELSE <<"/">> \o c
        t == trim_end_matches(l, "/")
    IN  IF t = <<>> THEN <<"/">> ELSE t

ConfigInvalid(msg) == [kind |-> "ConfigInvalid", msg |-> msg]
Unexpected(msg) == [kind |-> "Unexpected", msg |-> msg]

\* The account name handed to the credential loader
loader_account_name(cfg, ep) ==
    IF IsSome(cfg.account_name)
    THEN cfg.account_name
    ELSE infer_storage_name_from_endpoint(ep)

\* Builder::build. client_set: the builder holds an http client;
\* new_client_ok: HttpClient::new() succeeds when it is called.
build(cfg, client_set, new_client_ok) ==
    LET r == normalize_root(IF IsSome(cfg.root) THEN Unwrap(cfg.root) ELSE <<>>)
    IN  IF cfg.filesystem = ""
        THEN Err(ConfigInvalid("filesystem is empty"))
        ELSE IF IsNone(cfg.endpoint)
        THEN Err(ConfigInvalid("endpoint is empty"))
        ELSE LET ep == trim_end_matches(Unwrap(cfg.endpoint), "/")
             IN  IF ~client_set /\ ~new_client_ok
                 THEN Err(Unexpected("HttpClient::new"))
                 ELSE Ok([core |-> [filesystem |-> cfg.filesystem,
                                    root |-> r,
                                    endpoint |-> ep],
                          loader |-> [account_name |-> loader_account_name(cfg, ep),
                                      account_key |-> cfg.account_key,
                                      sas_token |-> None,
                                      client_id |-> cfg.client_id,
                                      client_secret |-> cfg.client_secret,
                                      tenant_id |-> cfg.tenant_id,
                                      authority_host |->
                                          Some(IF IsSome(cfg.authority_host)
                                               THEN Unwrap(cfg.authority_host)
                                               ELSE DEFAULT_AUTHORITY_HOST)]])

(* Inputs of the builder *)

RootInputs == {<<>>, <<"/">>, <<"r", "/", "/", "d", "/">>}
FilesystemInputs == {"", "fs"}
EndpointBases ==
    {HTTPS \o ACCOUNT \o <<".">> \o SUFFIX_PUBLIC,
     HTTPS \o EXAMPLE \o <<".">> \o SUFFIX_COM,
     ACCT_UPPER \o <<".">> \o SUFFIX_MIXED,
     AZURITE}
EndpointInputs ==
    {Slashes(k) : k \in 0..MaxSlashes}
        \cup {b \o Slashes(k) : b \in EndpointBases, k \in 0..MaxSlashes}
AccountNameInputs == {<<>>, EXPLICIT}
SecretInputs == {"", "v"}

Opt(S) == {None} \cup {Some(v) : v \in S}

\* Configurations handed to Configurator::into_builder: every field is public
\* and deserializable, so any value of its type may be there.
FromConfigs ==
    {[root |-> r, filesystem |-> f, endpoint |-> e, account_name |-> a,
      account_key |-> c, client_secret |-> c, tenant_id |-> c,
      client_id |-> c, authority_host |-> c] :
        r \in Opt(RootInputs), f \in FilesystemInputs,
        e \in Opt(EndpointInputs), a \in Opt(AccountNameInputs),
        c \in {None, Some("")}}

InferSchemes == {<<>>, HTTP, HTTPS, HTTPS_UPPER, HTTP \o HTTPS}
InferLabels == {<<>>, ACCOUNT, ACCT_UPPER}
InferSuffixes ==
    {SUFFIX_PUBLIC, SUFFIX_USGOV, SUFFIX_CHINA, SUFFIX_MIXED, SUFFIX_BLOB,
     SUFFIX_LONGER, SUFFIX_PATH, SUFFIX_COM, <<>>}
InferInputs ==
    {s \o l \o t \o Slashes(k) :
        s \in InferSchemes, l \in InferLabels,
        t \in {<<>>} \cup {<<".">> \o x : x \in InferSuffixes},
        k \in 0..MaxSlashes}

(* Idle values of the operation variables *)

NoOp == [name |-> "none", path |-> <<>>, to |-> <<>>, append |-> FALSE]
NoParent == [state |-> "n/a", status |-> 0]
NoResult == [ok |-> FALSE, val |-> <<>>, err |-> NoErr]

OpsIdle ==
    /\ pc = "idle"
    /\ op = NoOp
    /\ resp = None
    /\ parent = NoParent
    /\ sent = <<>>
    /\ signs = 0
    /\ result = NoResult
    /\ del_hist = <<>>

(* Actions of the builder *)

BuildInit ==
    /\ bpc = "new"
    /\ config = DefaultConfig
    /\ http_client = FALSE
    /\ built = NoResult
    /\ infer_in = <<>>
    /\ infer_out = None
    /\ OpsIdle

\* AzdlsBuilder::default()
BuilderDefault ==
    /\ bpc = "new"
    /\ bpc' = "config"
    /\ UNCHANGED <<config, http_client, built, infer_in, infer_out>>
    /\ UNCHANGED ovars

\* Configurator::into_builder
IntoBuilder ==
    /\ bpc = "new"
    /\ \E c \in FromConfigs : config' = c
    /\ bpc' = "config"
    /\ UNCHANGED <<http_client, built, infer_in, infer_out>>
    /\ UNCHANGED ovars

Setter(new) ==
    /\ bpc = "config"
    /\ config' = new
    /\ UNCHANGED <<bpc, http_client, built, infer_in, infer_out>>
    /\ UNCHANGED ovars

CallRoot == \E v \in RootInputs : Setter(root(config, v))
CallFilesystem == \E v \in FilesystemInputs : Setter(filesystem(config, v))
CallEndpoint == \E v \in EndpointInputs : Setter(endpoint(config, v))
CallAccountName == \E v \in AccountNameInputs : Setter(account_name(config, v))
CallAccountKey == \E v \in SecretInputs : Setter(account_key(config, v))
CallClientSecret == \E v \in SecretInputs : Setter(client_secret(config, v))
CallTenantId == \E v \in SecretInputs : Setter(tenant_id(config, v))
CallClientId == \E v \in SecretInputs : Setter(client_id(config, v))
CallAuthorityHost == \E v \in SecretInputs : Setter(authority_host(config, v))

CallHttpClient ==
    /\ bpc = "config"
    /\ http_client' = TRUE
    /\ UNCHANGED <<bpc, config, built, infer_in, infer_out>>
    /\ UNCHANGED ovars

CallBuild ==
    /\ bpc = "config"
    /\ \E new_client_ok \in BOOLEAN :
           built' = build(config, http_client, new_client_ok)
    /\ bpc' = "built"
    /\ UNCHANGED <<config, http_client, infer_in, infer_out>>
    /\ UNCHANGED ovars

\* A direct call of the free function, as the unit tests make it
CallInfer ==
    /\ bpc = "new"
    /\ \E e \in InferInputs :
           /\ infer_in' = e
           /\ infer_out' = infer_storage_name_from_endpoint(e)
    /\ bpc' = "inferred"
    /\ UNCHANGED <<config, http_client, built>>
    /\ UNCHANGED ovars

BuildNext ==
    \/ BuilderDefault
    \/ IntoBuilder
    \/ CallRoot
    \/ CallFilesystem
    \/ CallEndpoint
    \/ CallAccountName
    \/ CallAccountKey
    \/ CallClientSecret
    \/ CallTenantId
    \/ CallClientId
    \/ CallAuthorityHost
    \/ CallHttpClient
    \/ CallBuild
    \/ CallInfer

BuildSpec == BuildInit /\ [][BuildNext]_vars

-----------------------------------------------------------------------------
(* AzdlsBackend: the operations of Access *)

MaxStreak == 2

OK == 200
CREATED == 201
PARTIAL_CONTENT == 206
NOT_FOUND == 404
CONFLICT == 409

\* Statuses the remote may answer with
Statuses == {OK, CREATED, PARTIAL_CONTENT, NOT_FOUND, CONFLICT, 500}

\* Values of the x-ms-resource-type header: missing, not a valid string, or
\* a string
HeaderStrings == {"file", "directory", "File", ""}
ResourceTypes ==
    {None, Some([valid |-> FALSE, str |-> ""])}
        \cup {Some([valid |-> TRUE, str |-> h]) : h \in HeaderStrings}

ROOT_PATH == <<"/">>
Paths == {ROOT_PATH, <<"a">>, <<"d", "/", "a">>}

\* The number of non-empty segments of a path
Depth(s) ==
    Cardinality({i \in 1..Len(s) : s[i] # "/" /\ (i = 1 \/ s[i - 1] = "/")})

\* Core::azdls_ensure_parent_path issues a create-directory request for the
\* parent of root + path when there is one
has_parent(core_root, path) == Depth(core_root) + Depth(path) > 1

\* error::parse_error: the typed error of a failed response
parse_error(r) ==
    [kind |-> "RemoteOperationFailed", msg |-> ToString(r.status)]

SignFailed == [kind |-> "SignFailed", msg |-> ""]
TransportFailed == [kind |-> "TransportFailed", msg |-> ""]

\* raw::parse_into_metadata fails on a malformed standard header
parse_into_metadata(r) ==
    IF r.meta_ok THEN Ok([mode |-> "Unknown"])
    ELSE Err(Unexpected("parse_into_metadata"))

create_dir_result(r) ==
    IF r.status \in {CREATED, OK} THEN Ok("RpCreateDir")
    ELSE Err(parse_error(r))

\* Variant: the root is taken to be the empty path
stat_root_empty(path) == path = <<>>

stat_root(path) == path = ROOT_PATH

\* Variant: the resource type is compared ignoring case
stat_result_ignore_case(r) ==
    IF r.status # OK THEN Err(parse_error(r))
    ELSE IF ~parse_into_metadata(r).ok THEN parse_into_metadata(r)
    ELSE IF IsNone(r.rtype) \/ ~Unwrap(r.rtype).valid
    THEN Err(Unexpected("azdls should return x-ms-resource-type header"))
    ELSE IF Unwrap(r.rtype).str \in {"file", "File"} THEN Ok([mode |-> "FILE"])
    ELSE IF Unwrap(r.rtype).str = "directory" THEN Ok([mode |-> "DIR"])
    ELSE Err(Unexpected("azdls returns not supported x-ms-resource-type"))

stat_result(r) ==
    IF r.status # OK THEN Err(parse_error(r))
    ELSE IF ~parse_into_metadata(r).ok THEN parse_into_metadata(r)
    ELSE IF IsNone(r.rtype)
    THEN Err(Unexpected("azdls should return x-ms-resource-type header, but it's missing"))
    ELSE IF ~Unwrap(r.rtype).valid
    THEN Err(Unexpected("azdls should return x-ms-resource-type header, but it's not a valid string"))
    ELSE IF Unwrap(r.rtype).str = "file" THEN Ok([mode |-> "FILE"])
    ELSE IF Unwrap(r.rtype).str = "directory" THEN Ok([mode |-> "DIR"])
    ELSE Err(Unexpected("azdls returns not supported x-ms-resource-type"))

read_result(r) ==
    IF r.status \in {OK, PARTIAL_CONTENT} THEN Ok("body")
    ELSE IF ~r.drain_ok THEN Err(TransportFailed)
    ELSE Err(parse_error(r))

\* Variant: the two writer variants swapped
write_result_swapped(append) ==
    IF append THEN Ok([writer |-> "One", inner |-> "OneShotWriter"])
    ELSE Ok([writer |-> "Two", inner |-> "AppendWriter"])

write_result(append) ==
    IF append THEN Ok([writer |-> "Two", inner |-> "AppendWriter"])
    ELSE Ok([writer |-> "One", inner |-> "OneShotWriter"])

\* Variant: a missing path is an error
delete_result_strict(r) ==
    IF r.status = OK THEN Ok("RpDelete")
    ELSE Err(parse_error(r))

delete_result(r) ==
    IF r.status \in {OK, NOT_FOUND} THEN Ok("RpDelete")
    ELSE Err(parse_error(r))

list_result(path) == Ok([lister |-> "PageLister", path |-> path])

\* rename, after azdls_ensure_parent_path returned Some(resp)
\* Variants: a conflict is not tolerated; every answer is tolerated
rename_parent_ok_created_only(r) == r.status = CREATED

rename_parent_ok_always(r) == r.status \in Statuses

rename_parent_ok(r) == r.status \in {CREATED, CONFLICT}

\* Variant: 200 counts as success too
rename_result_any_ok(r) ==
    IF r.status \in {OK, CREATED} THEN Ok("RpRename")
    ELSE Err(parse_error(r))

rename_result(r) ==
    IF r.status = CREATED THEN Ok("RpRename")
    ELSE Err(parse_error(r))

\* The request an operation hands to sign and send next
request_kind(o, par) ==
    CASE o.name = "create_dir" -> "create_dir"
      [] o.name = "stat" -> "get_properties"
      [] o.name = "read" -> "read"
      [] o.name = "delete" -> "delete"
      [] o.name = "rename" /\ par.state = "pending" -> "ensure_parent"
      [] OTHER -> "rename"

Responses(o, par) ==
    {[status |-> st, rtype |-> rt, meta_ok |-> m, drain_ok |-> d] :
        st \in Statuses,
        rt \in IF o.name = "stat" THEN ResourceTypes ELSE {None},
        m \in IF o.name = "stat" THEN BOOLEAN ELSE {TRUE},
        d \in IF o.name = "read" THEN BOOLEAN ELSE {TRUE}}

CoreRoot == built.val.core.root

\* A core the operations run on: build() of a valid configuration
OpConfigs ==
    {[DefaultConfig EXCEPT !.root = r, !.filesystem = "fs",
                           !.endpoint = Some(HTTPS \o ACCOUNT \o <<".">> \o SUFFIX_PUBLIC)] :
        r \in {None, Some(<<"r", "/", "/", "d", "/">>)}}

Init ==
    /\ bpc = "built"
    /\ config \in OpConfigs
    /\ http_client = FALSE
    /\ built = build(config, FALSE, TRUE)
    /\ infer_in = <<>>
    /\ infer_out = None
    /\ OpsIdle

Start(o) ==
    /\ pc = "idle"
    /\ op' = o
    /\ resp' = None
    /\ sent' = <<>>
    /\ signs' = 0
    /\ UNCHANGED del_hist
    /\ UNCHANGED bvars

\* The operations that sign and send one request
CallCreateDir ==
    \E p \in Paths :
        /\ Start([name |-> "create_dir", path |-> p, to |-> <<>>, append |-> FALSE])
        /\ pc' = "sign"
        /\ parent' = NoParent
        /\ result' = NoResult

CallStat ==
    \E p \in Paths :
        /\ Start([name |-> "stat", path |-> p, to |-> <<>>, append |-> FALSE])
        /\ parent' = NoParent
        /\ IF stat_root(p)
           THEN pc' = "done" /\ result' = Ok([mode |-> "DIR"])
           ELSE pc' = "sign" /\ result' = NoResult

CallRead ==
    \E p \in Paths :
        /\ Start([name |-> "read", path |-> p, to |-> <<>>, append |-> FALSE])
        /\ pc' = "sign"
        /\ parent' = NoParent
        /\ result' = NoResult

CallWrite ==
    \E p \in Paths, a \in BOOLEAN :
        /\ Start([name |-> "write", path |-> p, to |-> <<>>, append |-> a])
        /\ pc' = "done"
        /\ parent' = NoParent
        /\ result' = write_result(a)

CallDelete ==
    \E p \in Paths :
        /\ Start([name |-> "delete", path |-> p, to |-> <<>>, append |-> FALSE])
        /\ pc' = "sign"
        /\ parent' = NoParent
        /\ result' = NoResult

CallList ==
    \E p \in Paths :
        /\ Start([name |-> "list", path |-> p, to |-> <<>>, append |-> FALSE])
        /\ pc' = "done"
        /\ parent' = NoParent
        /\ result' = list_result(p)

CallRename ==
    \E f \in Paths, t \in Paths :
        /\ Start([name |-> "rename", path |-> f, to |-> t, append |-> FALSE])
        /\ pc' = "sign"
        /\ parent' = IF has_parent(CoreRoot, t)
                     THEN [state |-> "pending", status |-> 0]
                     ELSE [state |-> "no_request", status |-> 0]
        /\ result' = NoResult

\* Core::sign: the loader's credentials, then the signer; either may fail
Sign ==
    /\ pc = "sign"
    /\ signs' = signs + 1
    /\ \E ok \in BOOLEAN :
           IF ok
           THEN pc' = "send" /\ UNCHANGED <<result, parent>>
           ELSE /\ pc' = "done"
                /\ result' = Err(SignFailed)
                /\ parent' = IF parent.state = "pending"
                             THEN [state |-> "failed", status |-> 0]
                             ELSE parent
    /\ UNCHANGED <<op, resp, sent, del_hist>>
    /\ UNCHANGED bvars

\* Core::send: the transport fails, or answers
Send ==
    /\ pc = "send"
    /\ \/ /\ sent' = Append(sent, [req |-> request_kind(op, parent), status |-> 0])
          /\ pc' = "done"
          /\ result' = Err(TransportFailed)
          /\ parent' = IF parent.state = "pending"
                       THEN [state |-> "failed", status |-> 0]
                       ELSE parent
          /\ UNCHANGED resp
       \/ \E r \in Responses(op, parent) :
              /\ sent' = Append(sent, [req |-> request_kind(op, parent),
                                       status |-> r.status])
              /\ resp' = Some(r)
              /\ pc' = "classify"
              /\ UNCHANGED <<result, parent>>
    /\ UNCHANGED <<op, signs, del_hist>>
    /\ UNCHANGED bvars

\* The match on the response's status
Classify ==
    /\ pc = "classify"
    /\ LET r == Unwrap(resp)
       IN  CASE op.name = "create_dir" ->
                    pc' = "done" /\ result' = create_dir_result(r) /\ UNCHANGED parent
             [] op.name = "stat" ->
                    pc' = "done" /\ result' = stat_result(r) /\ UNCHANGED parent
             [] op.name = "read" ->
                    pc' = "done" /\ result' = read_result(r) /\ UNCHANGED parent
             [] op.name = "delete" ->
                    pc' = "done" /\ result' = delete_result(r) /\ UNCHANGED parent
             [] op.name = "rename" /\ parent.state = "pending" ->
                    /\ parent' = [state |-> "response", status |-> r.status]
                    /\ IF rename_parent_ok(r)
                       THEN pc' = "sign" /\ UNCHANGED result
                       ELSE pc' = "done" /\ result' = Err(parse_error(r))
             [] OTHER ->
                    pc' = "done" /\ result' = rename_result(r) /\ UNCHANGED parent
    /\ UNCHANGED <<op, resp, sent, signs, del_hist>>
    /\ UNCHANGED bvars

\* The statuses of the latest consecutive successful deletes of one path
next_del_hist(h, o, res, r) ==
    IF o.name = "delete" /\ res.ok
    THEN LET old == IF h # <<>> /\ h[1] = o.path THEN h[2] ELSE <<>>
             all == Append(old, Unwrap(r).status)
         IN  <<o.path,
               IF Len(all) > MaxStreak THEN Tail(all) ELSE all>>
    ELSE <<>>

\* The operation's future completes; the caller has its result
Return ==
    /\ pc = "done"
    /\ pc' = "idle"
    /\ del_hist' = next_del_hist(del_hist, op, result, resp)
    /\ op' = NoOp
    /\ resp' = None
    /\ parent' = NoParent
    /\ sent' = <<>>
    /\ signs' = 0
    /\ result' = NoResult
    /\ UNCHANGED bvars

Next ==
    \/ CallCreateDir
    \/ CallStat
    \/ CallRead
    \/ CallWrite
    \/ CallDelete
    \/ CallList
    \/ CallRename
    \/ Sign
    \/ Send
    \/ Classify
    \/ Return

Spec == Init /\ [][Next]_vars

-----------------------------------------------------------------------------
(* Properties *)

HasSent(kind) == \E i \in 1..Len(sent) : sent[i].req = kind
Failed(kind) == ~result.ok /\ result.err.kind = kind
Infrastructure == {"SignFailed", "TransportFailed"}

\* C1: build() never returns a Backend whose Core has an empty filesystem or
\* an empty endpoint: a configuration whose filesystem or endpoint is missing
\* or empty (also one whose endpoint is empty after its trailing slashes are
\* trimmed) makes build() fail with ConfigInvalid, and build() sends nothing.
C1_BuildRejectsEmpty ==
    bpc = "built" =>
        /\ sent = <<>> /\ signs = 0
        /\ (\/ config.filesystem = ""
            \/ IsNone(config.endpoint)
            \/ trim_end_matches(Unwrap(config.endpoint), "/") = <<>>)
               => (~built.ok /\ built.err.kind = "ConfigInvalid")
        /\ built.ok => /\ built.val.core.filesystem # ""
                       /\ built.val.core.endpoint # <<>>

\* C2: in rename, unless signing or the transport fails, the rename request
\* is sent exactly when azdls_ensure_parent_path sent nothing or was answered
\* 201 or 409; any other answer ends rename with an error and no rename
\* request; the rename request never precedes the end of the parent step.
RenameParentDone ==
    \/ parent.state = "no_request"
    \/ parent.state = "response" /\ parent.status \in {CREATED, CONFLICT}

C2_RenameAfterParent ==
    op.name = "rename" =>
        /\ HasSent("rename") => RenameParentDone
        /\ \A i \in 1..Len(sent) :
               /\ sent[i].req = "rename" => i = Len(sent)
               /\ sent[i].req = "ensure_parent" => i = 1
        /\ (pc = "done" /\ (result.ok \/ result.err.kind \notin Infrastructure))
               => (HasSent("rename") <=> RenameParentDone)
        /\ (parent.state = "response" /\ parent.status \notin {CREATED, CONFLICT})
               => pc = "done" /\ ~result.ok /\ ~HasSent("rename")

C2_ConflictProceeds ==
    /\ op.name = "rename" /\ pc = "done"
    /\ parent.state = "response" /\ parent.status = CONFLICT
    /\ Len(sent) = 2 /\ sent[2].req = "rename"

\* C3: rename succeeds if and only if the rename request was sent and
\* answered 201; any other answer to it (200, 404, 409 among them) is a
\* RemoteOperationFailed error, however the parent step ended.
C3_RenameSuccessOnlyCreated ==
    (op.name = "rename" /\ pc = "done") =>
        /\ result.ok <=> /\ HasSent("rename")
                         /\ sent[Len(sent)].req = "rename"
                         /\ sent[Len(sent)].status = CREATED
        /\ (HasSent("rename") /\ sent[Len(sent)].status \notin {CREATED, 0})
               => Failed("RemoteOperationFailed")

C3_RenameOkAnswerFails ==
    /\ op.name = "rename" /\ pc = "done"
    /\ HasSent("rename") /\ sent[Len(sent)].status = OK
    /\ Failed("RemoteOperationFailed")

\* C4: delete succeeds exactly when the answer is 200 or 404, and is an
\* error for every other status; so deleting one path again and again
\* (answered 200, then 404) succeeds every time.
C4_DeleteIdempotent ==
    /\ (op.name = "delete" /\ pc = "done") =>
           /\ result.ok <=> (IsSome(resp) /\ Unwrap(resp).status \in {OK, NOT_FOUND})
           /\ (IsSome(resp) /\ Unwrap(resp).status \notin {OK, NOT_FOUND})
                  => Failed("RemoteOperationFailed")
    /\ del_hist # <<>> =>
           \A i \in 1..Len(del_hist[2]) : del_hist[2][i] \in {OK, NOT_FOUND}

C4_DeletedAgain ==
    /\ del_hist # <<>> /\ del_hist[2][1] = OK
    /\ del_hist[2][Len(del_hist[2])] = NOT_FOUND
    /\ op.name = "delete" /\ op.path = del_hist[1] /\ pc = "done"
    /\ IsSome(resp) /\ Unwrap(resp).status = NOT_FOUND /\ result.ok

\* C5: stat on the root path returns a directory record and neither signs
\* nor sends, whatever the remote or the credentials would answer; stat on
\* any other path hands a request to sign and, once signed, to the transport.
C5_StatRootNoRequest ==
    op.name = "stat" =>
        IF op.path = <<"/">>
        THEN /\ pc = "done" /\ result = Ok([mode |-> "DIR"])
             /\ signs = 0 /\ sent = <<>>
        ELSE /\ pc = "done" => signs = 1
             /\ (pc = "done" /\ ~Failed("SignFailed")) => Len(sent) = 1

C5_StatRootDone ==
    op.name = "stat" /\ op.path = <<"/">> /\ pc = "done" /\ result.ok

\* C6: write returns a writer, never fails and sends nothing; the writer is
\* the append variant exactly when append is requested, the one-shot variant
\* otherwise.
C6_WriteVariant ==
    op.name = "write" =>
        /\ pc = "done" /\ result.ok
        /\ signs = 0 /\ sent = <<>>
        /\ op.append <=> result.val.inner = "AppendWriter"
        /\ ~op.append <=> result.val.inner = "OneShotWriter"

C6_AppendWriter ==
    op.name = "write" /\ op.append /\ result.val.inner = "AppendWriter"

\* C7: the inferred account name of an endpoint is the label before the
\* first dot, after an http:// or https:// scheme is dropped, when what
\* follows the dot is, ignoring case and trailing slashes, one of the three
\* known suffixes, and None otherwise; build() hands the loader the explicit
\* account name when there is one and the inferred name only otherwise.
WithoutScheme(e) ==
    IF starts_with(e, HTTP) THEN SubSeq(e, Len(HTTP) + 1, Len(e))
    ELSE IF starts_with(e, HTTPS) THEN SubSeq(e, Len(HTTPS) + 1, Len(e))
    ELSE e

KnownAfter(s, i) ==
    \E suffix \in {SUFFIX_PUBLIC, SUFFIX_USGOV, SUFFIX_CHINA}, n \in 0..Len(s) :
        to_lowercase(SubSeq(s, i + 1, Len(s))) = suffix \o Slashes(n)

InferredAs(e, o) ==
    LET s == WithoutScheme(e)
        firstDots == {i \in 1..Len(s) :
                         s[i] = "." /\ \A k \in 1..(i - 1) : s[k] # "."}
    IN  IF \E i \in firstDots : KnownAfter(s, i)
        THEN \E i \in firstDots : o = Some(SubSeq(s, 1, i - 1))
        ELSE o = None

C7_AccountNameInference ==
    /\ bpc = "inferred" => InferredAs(infer_in, infer_out)
    /\ (bpc = "built" /\ built.ok) =>
           IF IsSome(config.account_name)
           THEN built.val.loader.account_name = config.account_name
           ELSE InferredAs(built.val.core.endpoint,
                           built.val.loader.account_name)

C7_InferredMixedCase ==
    /\ bpc = "built" /\ built.ok /\ IsNone(config.account_name)
    /\ built.val.core.endpoint = ACCT_UPPER \o <<".">> \o SUFFIX_MIXED
    /\ built.val.loader.account_name = Some(ACCT_UPPER)

\* C8: every setter called with an empty string leaves the configuration as
\* it was, so no set value is replaced by an empty one; called with a
\* non-empty value it changes its own field only.
SetterFields ==
    {"root", "filesystem", "endpoint", "account_name", "account_key",
     "client_secret", "tenant_id", "client_id", "authority_host"}

OnlyChanges(new, f) == \A g \in SetterFields \ {f} : new[g] = config[g]

C8_SettersIgnoreEmpty ==
    bpc = "config" =>
        /\ root(config, <<>>) = config
        /\ filesystem(config, "") = config
        /\ endpoint(config, <<>>) = config
        /\ account_name(config, <<>>) = config
        /\ account_key(config, "") = config
        /\ client_secret(config, "") = config
        /\ tenant_id(config, "") = config
        /\ client_id(config, "") = config
        /\ authority_host(config, "") = config
        /\ \A v \in RootInputs : OnlyChanges(root(config, v), "root")
        /\ \A v \in FilesystemInputs :
               OnlyChanges(filesystem(config, v), "filesystem")
        /\ \A v \in EndpointInputs : OnlyChanges(endpoint(config, v), "endpoint")
        /\ \A v \in AccountNameInputs :
               OnlyChanges(account_name(config, v), "account_name")
        /\ \A v \in SecretInputs :
               /\ OnlyChanges(account_key(config, v), "account_key")
               /\ OnlyChanges(client_secret(config, v), "client_secret")
               /\ OnlyChanges(tenant_id(config, v), "tenant_id")
               /\ OnlyChanges(client_id(config, v), "client_id")
               /\ OnlyChanges(authority_host(config, v), "authority_host")

\* C9: stat on a path other than the root succeeds only on a 200 answer
\* whose x-ms-resource-type header is exactly "file" or "directory", with a
\* record of that kind; a 200 answer whose header is missing or anything
\* else is an Unexpected error; any other status is the error interpreter's
\* error.
IsType(r, t) ==
    IsSome(r.rtype) /\ Unwrap(r.rtype).valid /\ Unwrap(r.rtype).str = t

C9_StatResourceType ==
    (op.name = "stat" /\ op.path # <<"/">> /\ pc = "done" /\ IsSome(resp)) =>
        LET r == Unwrap(resp)
        IN  /\ result.ok =>
                   /\ r.status = OK
                   /\ \/ IsType(r, "file") /\ result.val.mode = "FILE"
                      \/ IsType(r, "directory") /\ result.val.mode = "DIR"
            /\ (r.status = OK /\ ~IsType(r, "file") /\ ~IsType(r, "directory"))
                   => Failed("Unexpected")
            /\ r.status # OK => Failed("RemoteOperationFailed")
            /\ (r.status = OK /\ r.meta_ok
                    /\ (IsType(r, "file") \/ IsType(r, "directory")))
                   => result.ok

C9_StatUnknownType ==
    /\ op.name = "stat" /\ pc = "done" /\ IsSome(resp)
    /\ Unwrap(resp).status = OK /\ Unwrap(resp).meta_ok
    /\ IsType(Unwrap(resp), "File")
    /\ Failed("Unexpected")

\* C10: no operation retries: create_dir, stat, read and delete send at most
\* one request, rename at most two (the parent's creation, then the rename);
\* a response outside the operation's success set ends the call with an
\* error and nothing more is sent; a signing or transport failure is
\* returned without another attempt.
SuccessSet(kind) ==
    CASE kind = "create_dir" -> {CREATED, OK}
      [] kind = "get_properties" -> {OK}
      [] kind = "read" -> {OK, PARTIAL_CONTENT}
      [] kind = "delete" -> {OK, NOT_FOUND}
      [] kind = "ensure_parent" -> {CREATED, CONFLICT}
      [] kind = "rename" -> {CREATED}

MaxRequests(name) ==
    CASE name \in {"create_dir", "stat", "read", "delete"} -> 1
      [] name = "rename" -> 2
      [] OTHER -> 0

C10_NoRetry ==
    /\ Len(sent) <= MaxRequests(op.name)
    /\ signs <= MaxRequests(op.name)
    /\ Len(sent) <= signs
    /\ \A i \in 1..Len(sent), j \in 1..Len(sent) :
           i < j => sent[i].req # sent[j].req
    /\ \A i \in 1..Len(sent) :
           sent[i].status \notin SuccessSet(sent[i].req) =>
               /\ i = Len(sent)
               /\ pc \in {"classify", "done"}
               /\ pc = "done" => ~result.ok
    /\ (pc = "done" /\ ~result.ok /\ result.err.kind \in Infrastructure) =>
           (signs = Len(sent) \/ signs = Len(sent) + 1)

C10_BadAnswerEndsCall ==
    /\ pc = "done" /\ op.name = "rename" /\ Len(sent) = 1
    /\ sent[1].req = "ensure_parent" /\ sent[1].status = OK
    /\ ~result.ok

====
